---- MODULE Spec2Model ----
(***************************************************************************)
(* A model of az-sdk-gen (packages/sdk-gen): the spec-file selector        *)
(* pickSpecFile (github.ts), the version ranker compareVersionsDesc /      *)
(* pickLatest (index.ts) and the bulk command generate-latest (index.ts).  *)
(*                                                                         *)
(* A JavaScript string is modelled as the sequence of its characters, each *)
(* character a one-character TLA+ string: "7.1" is <<"7", ".", "1">>.      *)
(* A value that may be undefined is a sequence of length 0 (undefined) or  *)
(* 1 (the value).                                                          *)
(***************************************************************************)
EXTENDS Integers, Sequences, FiniteSets, TLC

VARIABLES
    pc,            \* position of the running program
    api,           \* pickSpecFile's api argument / the bulk loop's api
    jsons,         \* pickSpecFile's jsons argument / the bulk loop's jsons
    fileOverride,  \* pickSpecFile's fileOverride argument (optional)
    picked,        \* outcome of the pickSpecFile call
    versions,      \* pickLatest's versions argument / the bulk loop's versions
    sorted,        \* pickLatest's local sorted
    latest,        \* outcome of pickLatest (optional: sorted[0] may be undefined)
                   \* / opts.apiVersion in resolve and generate
    apis,          \* generate-latest: the listing of APIs
    idx,           \* generate-latest: how many of apis the for-of loop has taken
    optsCache,     \* generate, generate-latest: opts.cache (false with --no-cache)
    cacheFiles,    \* the spec files present under the cache root
    exitCode,      \* the process's exit status, once it has ended
    log,           \* what the run has done so far, in order
    packageDir,    \* scaffoldPackage: the files and directories of packageDir
    indexTs        \* scaffoldPackage: the lines of the index.ts it writes

callVars == <<api, jsons, fileOverride, picked, versions, sorted, latest>>
bulkVars == <<apis, idx, optsCache, cacheFiles, exitCode, log>>
scaffoldVars == <<packageDir, indexTs>>
vars == <<pc, api, jsons, fileOverride, picked, versions, sorted, latest,
          apis, idx, optsCache, cacheFiles, exitCode, log, packageDir, indexTs>>

(***************************************************************************)
(* Bounds of the inputs that are enumerated.                               *)
(***************************************************************************)
MaxCandidates == 3
MaxVersions == 3

(***************************************************************************)
(* Strings.                                                                *)
(***************************************************************************)
DotJson == <<".", "j", "s", "o", "n">>
SDotJson == <<"s", ".", "j", "s", "o", "n">>

\* All sequences over S of length at most n.
SeqsUpTo(S, n) == UNION {[1..k -> S] : k \in 0..n}

\* An optional value: absent (undefined) or present.
None == <<>>
Some(x) == <<x>>

\* JavaScript truthiness of an optional string: undefined and "" are falsy.
Truthy(opt) == Len(opt) = 1 /\ opt[1] # <<>>

\* Array.prototype.includes
Includes(arr, x) == \E k \in 1..Len(arr) : arr[k] = x

(***************************************************************************)
(* pickSpecFile (github.ts).  Its outcome is either a returned name or a   *)
(* thrown Error; the Error's kind is the spec's name for the throw site,   *)
(* and `reported` the candidate list its message prints.                   *)
(***************************************************************************)
Return(x) == [kind |-> "ok", value |-> Some(x), reported |-> <<>>]
Throw(k, list) == [kind |-> k, value |-> None, reported |-> list]

preferredSwapped(a) == <<a \o SDotJson, a \o DotJson>>

preferred(a) == <<a \o DotJson, a \o SDotJson>>

\* for (const p of preferred) if (jsons.includes(p)) return p;
RECURSIVE firstPreferred(_, _, _)
firstPreferred(prefs, k, arr) ==
    IF k > Len(prefs) THEN None
    ELSE IF Includes(arr, prefs[k]) THEN Some(prefs[k])
    ELSE firstPreferred(prefs, k + 1, arr)

\* Mutant: the override is returned without the membership test.
pickSpecFileUnchecked(a, arr, ov) ==
    IF Truthy(ov) THEN Return(ov[1])
    ELSE IF Len(arr) = 0 THEN Throw("NotFound", <<>>)
    ELSE IF Len(arr) = 1 THEN Return(arr[1])
    ELSE LET p == firstPreferred(preferred(a), 1, arr)
         IN  IF p # None THEN Return(p[1])
             ELSE Throw("AmbiguousSelection", arr)

\* Mutant: the single-candidate shortcut is missing.
pickSpecFileNoSingle(a, arr, ov) ==
    IF Truthy(ov)
    THEN IF ~Includes(arr, ov[1]) THEN Throw("NotFound", arr)
         ELSE Return(ov[1])
    ELSE IF Len(arr) = 0 THEN Throw("NotFound", <<>>)
    ELSE LET p == firstPreferred(preferred(a), 1, arr)
         IN  IF p # None THEN Return(p[1])
             ELSE Throw("AmbiguousSelection", arr)

\* Mutant: the empty-list test is missing, so an empty list reaches the
\* final throw.
pickSpecFileNoEmpty(a, arr, ov) ==
    IF Truthy(ov)
    THEN IF ~Includes(arr, ov[1]) THEN Throw("NotFound", arr)
         ELSE Return(ov[1])
    ELSE IF Len(arr) = 1 THEN Return(arr[1])
    ELSE LET p == firstPreferred(preferred(a), 1, arr)
         IN  IF p # None THEN Return(p[1])
             ELSE Throw("AmbiguousSelection", arr)

pickSpecFile(a, arr, ov) ==
    IF Truthy(ov)
    THEN IF ~Includes(arr, ov[1]) THEN Throw("NotFound", arr)
         ELSE Return(ov[1])
    ELSE IF Len(arr) = 0 THEN Throw("NotFound", <<>>)
    ELSE IF Len(arr) = 1 THEN Return(arr[1])
    ELSE LET p == firstPreferred(preferred(a), 1, arr)
         IN  IF p # None THEN Return(p[1])
             ELSE Throw("AmbiguousSelection", arr)

(***************************************************************************)
(* The selector applied to enumerated arguments.                           *)
(***************************************************************************)
ApiKeys == {<<"a">>, <<"x">>, <<"a", "s">>}

CandidateNames ==
    { <<"a">> \o DotJson, <<"a">> \o SDotJson, <<"a", "s">> \o SDotJson,
      <<"x">> \o DotJson, <<"y">> \o DotJson }

\* --file values: not given, given as "", a candidate name, some other name.
Overrides ==
    {None, Some(<<>>), Some(<<"b">> \o DotJson)}
        \cup {Some(n) : n \in CandidateNames}

NoOutcome == [kind |-> "none", value |-> None, reported |-> <<>>]

\* The package directory while scaffoldPackage is not followed.
NoScaffold ==
    /\ packageDir = {}
    /\ indexTs = <<>>

\* The command's variables while a function is exercised on its own.
NoCommand ==
    /\ apis = <<>>
    /\ idx = 0
    /\ optsCache = TRUE
    /\ cacheFiles = {}
    /\ exitCode = None
    /\ log = <<>>

InitPick ==
    /\ pc = "pickSpecFile"
    /\ api \in ApiKeys
    /\ jsons \in SeqsUpTo(CandidateNames, MaxCandidates)
    /\ fileOverride \in Overrides
    /\ picked = NoOutcome
    /\ versions = <<>>
    /\ sorted = <<>>
    /\ latest = None
    /\ NoCommand
    /\ NoScaffold

CallPickSpecFile ==
    /\ pc = "pickSpecFile"
    /\ picked' = pickSpecFile(api, jsons, fileOverride)
    /\ pc' = "picked"
    /\ UNCHANGED <<api, jsons, fileOverride, versions, sorted, latest>>
    /\ UNCHANGED bulkVars
    /\ UNCHANGED scaffoldVars

NextPick == CallPickSpecFile

SpecPick == InitPick /\ [][NextPick]_vars

(***************************************************************************)
(* Claims about the selector, checked under SpecPick.                      *)
(***************************************************************************)
ApiDotJson == api \o DotJson
ApisDotJson == api \o SDotJson

\* C1 (as stated): whenever an override is given (any string, the empty one
\* included), pickSpecFile returns the override if and only if the override
\* is one of the candidates, and otherwise fails with NotFound reporting the
\* full candidate list.
C1_AnyOverride ==
    (pc = "picked" /\ Len(fileOverride) = 1) =>
        /\ (picked.kind = "ok" /\ picked.value = fileOverride)
               <=> Includes(jsons, fileOverride[1])
        /\ ~Includes(jsons, fileOverride[1]) =>
               (picked.kind = "NotFound" /\ picked.reported = jsons)

\* C1 (amended): whenever a non-empty override is given, pickSpecFile returns
\* the override if and only if the override is one of the candidates, and
\* otherwise fails with NotFound reporting the full candidate list, whatever
\* the number of candidates and the api key.
C1_NonEmptyOverride ==
    (pc = "picked" /\ Truthy(fileOverride)) =>
        /\ (picked.kind = "ok" /\ picked.value = fileOverride)
               <=> Includes(jsons, fileOverride[1])
        /\ ~Includes(jsons, fileOverride[1]) =>
               (picked.kind = "NotFound" /\ picked.value = None
                    /\ picked.reported = jsons)

\* A non-empty override that is not among three candidates was refused.
C1_Witness ==
    /\ pc = "picked"
    /\ Truthy(fileOverride)
    /\ Len(jsons) = MaxCandidates
    /\ ~Includes(jsons, fileOverride[1])
    /\ Includes(jsons, ApiDotJson)
    /\ picked.kind = "NotFound"

\* C2: with no override and two or more candidates pickSpecFile returns
\* "<key>.json" if it is a candidate, else "<key>s.json" if that is a
\* candidate, whatever the listing order; if neither is a candidate it fails
\* with AmbiguousSelection and returns nothing.
C2_PreferredOrder ==
    (pc = "picked" /\ fileOverride = None /\ Len(jsons) >= 2) =>
        IF Includes(jsons, ApiDotJson)
        THEN picked.kind = "ok" /\ picked.value = Some(ApiDotJson)
        ELSE IF Includes(jsons, ApisDotJson)
        THEN picked.kind = "ok" /\ picked.value = Some(ApisDotJson)
        ELSE /\ picked.kind = "AmbiguousSelection"
             /\ picked.value = None
             /\ picked.reported = jsons

\* Both patterns are candidates, "<key>s.json" is listed first, and
\* "<key>.json" was returned.
C2_Witness ==
    /\ pc = "picked"
    /\ fileOverride = None
    /\ Len(jsons) >= 2
    /\ jsons[1] = ApisDotJson
    /\ jsons[2] = ApiDotJson
    /\ picked.value = Some(ApiDotJson)

\* C3: with no override and exactly one candidate pickSpecFile returns that
\* candidate, for every api key.
C3_SingleCandidate ==
    (pc = "picked" /\ fileOverride = None /\ Len(jsons) = 1) =>
        (picked.kind = "ok" /\ picked.value = Some(jsons[1]))

\* The only candidate matches neither pattern of the key and was returned.
C3_Witness ==
    /\ pc = "picked"
    /\ fileOverride = None
    /\ Len(jsons) = 1
    /\ jsons[1] # ApiDotJson
    /\ jsons[1] # ApisDotJson
    /\ picked.kind = "ok"
    /\ picked.value = Some(jsons[1])

\* C4: with no override and no candidate pickSpecFile fails with NotFound:
\* it neither fails with AmbiguousSelection nor returns a value.
C4_NoCandidates ==
    (pc = "picked" /\ fileOverride = None /\ jsons = <<>>) =>
        (picked.kind = "NotFound" /\ picked.value = None)

\* The selector was called with no override on an empty list and failed.
C4_Witness ==
    /\ pc = "picked"
    /\ fileOverride = None
    /\ jsons = <<>>
    /\ picked.kind = "NotFound"

(***************************************************************************)
(* Characters.                                                             *)
(***************************************************************************)
DigitChars == <<"0", "1", "2", "3", "4", "5", "6", "7", "8", "9">>
LowerChars ==
    <<"a", "b", "c", "d", "e", "f", "g", "h", "i", "j", "k", "l", "m",
      "n", "o", "p", "q", "r", "s", "t", "u", "v", "w", "x", "y", "z">>
UpperChars ==
    <<"A", "B", "C", "D", "E", "F", "G", "H", "I", "J", "K", "L", "M",
      "N", "O", "P", "Q", "R", "S", "T", "U", "V", "W", "X", "Y", "Z">>

IndexIn(chars, c) == CHOOSE k \in 1..Len(chars) : chars[k] = c
IsIn(chars, c) == \E k \in 1..Len(chars) : chars[k] = c

\* [0-9]
IsDigit(c) == IsIn(DigitChars, c)
DigitValue(c) == IndexIn(DigitChars, c) - 1

\* Case folding of the /i flag on ASCII letters.
FoldCase(c) == IF IsIn(UpperChars, c) THEN LowerChars[IndexIn(UpperChars, c)] ELSE c

(***************************************************************************)
(* isStableVersion (index.ts): !/preview|beta|rc/i.test(v)                 *)
(***************************************************************************)
PrereleaseWords ==
    { <<"p", "r", "e", "v", "i", "e", "w">>, <<"b", "e", "t", "a">>, <<"r", "c">> }

\* An unanchored regular expression of literal alternatives matches v when
\* one alternative occurs in v at some position.
RegexTest(words, v, ignoreCase) ==
    LET w == IF ignoreCase THEN [k \in 1..Len(v) |-> FoldCase(v[k])] ELSE v
    IN  \E word \in words :
            \E k \in 1..Len(w) :
                /\ k + Len(word) - 1 <= Len(w)
                /\ SubSeq(w, k, k + Len(word) - 1) = word

\* Mutant: the i flag is missing.
isStableVersionCaseSensitive(v) == ~RegexTest(PrereleaseWords, v, FALSE)

isStableVersion(v) == ~RegexTest(PrereleaseWords, v, TRUE)

(***************************************************************************)
(* versionTokens (index.ts):                                               *)
(*   v.split(/[^0-9]+/).filter(Boolean).map((x) => parseInt(x, 10))        *)
(***************************************************************************)
\* String.prototype.split on runs of non-digits: the pieces between the
\* separators, the empty pieces at either end included.
RECURSIVE SplitNonDigits(_, _, _, _, _)
SplitNonDigits(v, k, pieces, cur, inSep) ==
    IF k > Len(v) THEN Append(pieces, cur)
    ELSE IF IsDigit(v[k])
         THEN SplitNonDigits(v, k + 1, pieces, Append(cur, v[k]), FALSE)
    ELSE IF inSep
         THEN SplitNonDigits(v, k + 1, pieces, cur, TRUE)
    ELSE SplitNonDigits(v, k + 1, Append(pieces, cur), <<>>, TRUE)

\* .filter(Boolean): the empty string is falsy.
RECURSIVE FilterNonEmpty(_)
FilterNonEmpty(pieces) ==
    IF pieces = <<>> THEN <<>>
    ELSE IF Head(pieces) = <<>> THEN FilterNonEmpty(Tail(pieces))
    ELSE <<Head(pieces)>> \o FilterNonEmpty(Tail(pieces))

\* parseInt(x, 10) of a non-empty string of digits.
RECURSIVE parseInt(_)
parseInt(x) ==
    IF x = <<>> THEN 0
    ELSE parseInt(SubSeq(x, 1, Len(x) - 1)) * 10 + DigitValue(x[Len(x)])

versionTokens(v) ==
    LET pieces == FilterNonEmpty(SplitNonDigits(v, 1, <<>>, <<>>, FALSE))
    IN  [k \in 1..Len(pieces) |-> parseInt(pieces[k])]

(***************************************************************************)
(* String.prototype.localeCompare with no locale argument: the default     *)
(* collation.  On the characters used here (hyphen, full stop, digits,     *)
(* ASCII letters) it orders strings by the characters' primary weights     *)
(* (punctuation before digits before letters, letters without regard to    *)
(* case), a proper prefix first, and strings equal at that level by case,  *)
(* lower case first.                                                       *)
(***************************************************************************)
PrimaryWeight(c) ==
    IF c = "-" THEN 1
    ELSE IF c = "." THEN 2
    ELSE IF IsDigit(c) THEN 10 + DigitValue(c)
    ELSE 100 + IndexIn(LowerChars, FoldCase(c))

CaseWeight(c) == IF IsIn(UpperChars, c) THEN 1 ELSE 0

RECURSIVE WeightsCompare(_, _, _)
WeightsCompare(x, y, k) ==
    IF k > Len(x) /\ k > Len(y) THEN 0
    ELSE IF k > Len(x) THEN -1
    ELSE IF k > Len(y) THEN 1
    ELSE IF x[k] < y[k] THEN -1
    ELSE IF x[k] > y[k] THEN 1
    ELSE WeightsCompare(x, y, k + 1)

localeCompare(a, b) ==
    LET p == WeightsCompare([k \in 1..Len(a) |-> PrimaryWeight(a[k])],
                            [k \in 1..Len(b) |-> PrimaryWeight(b[k])], 1)
    IN  IF p # 0 THEN p
        ELSE WeightsCompare([k \in 1..Len(a) |-> CaseWeight(a[k])],
                            [k \in 1..Len(b) |-> CaseWeight(b[k])], 1)

(***************************************************************************)
(* compareVersionsDesc (index.ts)                                          *)
(***************************************************************************)
Max(m, n) == IF m >= n THEN m ELSE n

\* ta[i] ?? 0, for the 0-based index i
TokenAt(t, i) == IF i + 1 <= Len(t) THEN t[i + 1] ELSE 0

\* The for loop: the value it returns, or None when it runs to its end.
RECURSIVE tokenLoop(_, _, _, _)
tokenLoop(ta, tb, i, len) ==
    IF ~(i < len) THEN None
    ELSE LET va == TokenAt(ta, i)
             vb == TokenAt(tb, i)
         IN  IF va # vb THEN Some(vb - va)
             ELSE tokenLoop(ta, tb, i + 1, len)

\* Mutant: the numeric loop is missing.
compareVersionsDescNoTokens(a, b) ==
    LET sa == isStableVersion(a)
        sb == isStableVersion(b)
    IN  IF sa # sb THEN (IF sa THEN -1 ELSE 1)
        ELSE localeCompare(b, a)

\* Mutant: numerically equal labels compare equal.
compareVersionsDescNoTieBreak(a, b) ==
    LET sa == isStableVersion(a)
        sb == isStableVersion(b)
    IN  IF sa # sb THEN (IF sa THEN -1 ELSE 1)
        ELSE LET ta == versionTokens(a)
                 tb == versionTokens(b)
                 r == tokenLoop(ta, tb, 0, Max(Len(ta), Len(tb)))
             IN  IF r # None THEN r[1] ELSE 0

compareVersionsDesc(a, b) ==
    LET sa == isStableVersion(a)
        sb == isStableVersion(b)
    IN  IF sa # sb THEN (IF sa THEN -1 ELSE 1)
        ELSE LET ta == versionTokens(a)
                 tb == versionTokens(b)
                 r == tokenLoop(ta, tb, 0, Max(Len(ta), Len(tb)))
             IN  IF r # None THEN r[1] ELSE localeCompare(b, a)

(***************************************************************************)
(* Array.prototype.sort with a comparator: a stable sort; x stays before y *)
(* unless the comparator puts y first.  Insertion from the left.           *)
(***************************************************************************)
RECURSIVE InsertSorted(_, _)
InsertSorted(s, x) ==
    IF s = <<>> THEN <<x>>
    ELSE IF compareVersionsDesc(s[Len(s)], x) > 0
         THEN Append(InsertSorted(SubSeq(s, 1, Len(s) - 1), x), s[Len(s)])
    ELSE Append(s, x)

RECURSIVE ArraySort(_)
ArraySort(arr) ==
    IF arr = <<>> THEN <<>>
    ELSE InsertSorted(ArraySort(SubSeq(arr, 1, Len(arr) - 1)), arr[Len(arr)])

(***************************************************************************)
(* pickLatest (index.ts) applied to enumerated label lists.                *)
(***************************************************************************)
VersionLabels ==
    { <<"7", ".", "0">>, <<"7">>, <<"7", ".", "1">>, <<"7", ".", "2">>,
      <<"1", ".", "2">>, <<"1", ".", "1", "0">>, <<"1", ".", "9">>,
      <<"d", "e", "v">>,
      <<"7", ".", "1", "-", "p", "r", "e", "v", "i", "e", "w">>,
      <<"7", ".", "1", "-", "P", "r", "e", "v", "i", "e", "w">>,
      <<"7", ".", "0", "-", "R", "C">>,
      <<"8", ".", "0", "-", "r", "c">>,
      <<"b", "e", "t", "a">> }

InitRank ==
    /\ pc = "pickLatest"
    /\ versions \in SeqsUpTo(VersionLabels, MaxVersions)
    /\ sorted = <<>>
    /\ latest = None
    /\ api = <<>>
    /\ jsons = <<>>
    /\ fileOverride = None
    /\ picked = NoOutcome
    /\ NoCommand
    /\ NoScaffold

\* const sorted = versions.slice().sort(compareVersionsDesc); return sorted[0];
CallPickLatest ==
    /\ pc = "pickLatest"
    /\ sorted' = ArraySort(versions)
    /\ latest' = IF sorted' = <<>> THEN None ELSE Some(sorted'[1])
    /\ pc' = "ranked"
    /\ UNCHANGED <<versions, api, jsons, fileOverride, picked>>
    /\ UNCHANGED bulkVars
    /\ UNCHANGED scaffoldVars

NextRank == CallPickLatest

SpecRank == InitRank /\ [][NextRank]_vars

(***************************************************************************)
(* The claims' own vocabulary, stated without the code's helpers.          *)
(***************************************************************************)
Markers ==
    { <<"p", "r", "e", "v", "i", "e", "w">>, <<"b", "e", "t", "a">>, <<"r", "c">> }

\* c is the lower-case letter d or its upper-case form.
SameLetter(c, d) ==
    c = d \/ \E k \in 1..Len(LowerChars) : LowerChars[k] = d /\ UpperChars[k] = c

\* v contains a prerelease marker, in any mix of cases.
HasMarker(v) ==
    \E m \in Markers :
        \E k \in 1..Len(v) :
            /\ k + Len(m) - 1 <= Len(v)
            /\ \A j \in 1..Len(m) : SameLetter(v[k + j - 1], m[j])

DigitOf(c) == CHOOSE d \in 0..9 : DigitChars[d + 1] = c
IsDigitAt(v, k) == k >= 1 /\ k <= Len(v) /\ \E d \in 0..9 : DigitChars[d + 1] = v[k]

RECURSIVE Pow10(_)
Pow10(n) == IF n = 0 THEN 1 ELSE 10 * Pow10(n - 1)

\* The positions where a maximal run of digits starts, and where it ends.
RunStarts(v) == {k \in 1..Len(v) : IsDigitAt(v, k) /\ ~IsDigitAt(v, k - 1)}
RunEnd(v, k) ==
    CHOOSE e \in k..Len(v) :
        (\A j \in k..e : IsDigitAt(v, j)) /\ ~IsDigitAt(v, e + 1)

RECURSIVE DecimalValue(_, _, _)
DecimalValue(v, k, e) ==
    IF k > e THEN 0
    ELSE DigitOf(v[k]) * Pow10(e - k) + DecimalValue(v, k + 1, e)

\* The integers written in v, in order of appearance.
NumericSeq(v) ==
    LET starts == RunStarts(v)
        nth(n) == CHOOSE k \in starts : Cardinality({j \in starts : j <= k}) = n
    IN  [n \in 1..Cardinality(starts) |-> DecimalValue(v, nth(n), RunEnd(v, nth(n)))]

\* 1, 0 or -1 as a's numeric sequence is above, equal to or below b's, the
\* shorter sequence continued with zeros.
NumericOrder(a, b) ==
    LET x == NumericSeq(a)
        y == NumericSeq(b)
        at(t, i) == IF i <= Len(t) THEN t[i] ELSE 0
        n == IF Len(x) >= Len(y) THEN Len(x) ELSE Len(y)
        D == {i \in 1..n : at(x, i) # at(y, i)}
    IN  IF D = {} THEN 0
        ELSE LET i == CHOOSE d \in D : \A j \in D : d <= j
             IN  IF at(x, i) > at(y, i) THEN 1 ELSE -1

Sign(n) == IF n < 0 THEN -1 ELSE IF n > 0 THEN 1 ELSE 0

Elements(s) == {s[k] : k \in 1..Len(s)}

\* Every ordering of the list s.
Arrangements(s) == {[k \in 1..Len(s) |-> s[p[k]]] : p \in Permutations(1..Len(s))}

\* s with its first two elements exchanged, and s with its first element
\* moved to the end.  Every ordering of a list is reached from it by these
\* two steps.
SwapFirstTwo(s) ==
    IF Len(s) < 2 THEN s ELSE <<s[2], s[1]>> \o SubSeq(s, 3, Len(s))
RotateLeft(s) == IF s = <<>> THEN s ELSE Append(Tail(s), Head(s))

\* The comparator, the marker test and the numeric order on the enumerated
\* labels, tabulated.
ComparatorOn == [a \in VersionLabels, b \in VersionLabels |-> compareVersionsDesc(a, b)]
LocaleOn == [a \in VersionLabels, b \in VersionLabels |-> localeCompare(a, b)]
TokensEqualOn ==
    [a \in VersionLabels, b \in VersionLabels |->
        LET ta == versionTokens(a)
            tb == versionTokens(b)
        IN  tokenLoop(ta, tb, 0, Max(Len(ta), Len(tb))) = None]
TokensOn == [a \in VersionLabels |-> versionTokens(a)]
HasMarkerOn == [a \in VersionLabels |-> HasMarker(a)]
NumericSeqOn == [a \in VersionLabels |-> NumericSeq(a)]
NumericOrderOn == [a \in VersionLabels, b \in VersionLabels |-> NumericOrder(a, b)]

L_7 == <<"7">>
L_7_0 == <<"7", ".", "0">>
L_7_1 == <<"7", ".", "1">>
L_7_2 == <<"7", ".", "2">>
L_7_1_preview == <<"7", ".", "1", "-", "p", "r", "e", "v", "i", "e", "w">>
L_1_2 == <<"1", ".", "2">>
L_1_9 == <<"1", ".", "9">>
L_1_10 == <<"1", ".", "1", "0">>
L_7_0_RC == <<"7", ".", "0", "-", "R", "C">>
L_8_0_rc == <<"8", ".", "0", "-", "r", "c">>

(***************************************************************************)
(* Claims about the ranker, checked under SpecRank.                        *)
(***************************************************************************)
\* C5: in the ranker's output (an ordering of its input) every label without
\* a prerelease marker precedes every label with one, whatever their
\* numbers; so the latest label is stable whenever some input label is, and
\* 7.0, 7.1-preview, 7.2 are ranked 7.2, 7.0, 7.1-preview.
C5_StableFirst ==
    pc = "ranked" =>
        /\ sorted \in Arrangements(versions)
        /\ \A i, j \in 1..Len(sorted) :
               (HasMarkerOn[sorted[i]] /\ ~HasMarkerOn[sorted[j]]) => j < i
        /\ (\E k \in 1..Len(versions) : ~HasMarkerOn[versions[k]]) =>
               (latest # None /\ ~HasMarkerOn[latest[1]])
        /\ Elements(versions) = {L_7_0, L_7_1_preview, L_7_2} /\ Len(versions) = 3 =>
               sorted = <<L_7_2, L_7_0, L_7_1_preview>>

\* Two prereleases with higher numbers (one marked in upper case) were listed
\* before a stable label, and the stable label came out first.
C5_Witness ==
    /\ pc = "ranked"
    /\ versions = <<L_8_0_rc, L_7_0_RC, L_7_1>>
    /\ sorted = <<L_7_1, L_8_0_rc, L_7_0_RC>>
    /\ latest = Some(L_7_1)

\* C6: among the stable labels and among the prerelease labels the output is
\* in descending order of the labels' numeric sequences (missing trailing
\* numbers counting as zero): 1.10 precedes 1.9 precedes 1.2; the code's
\* tokens are the label's numeric sequence, and its token comparison finds no
\* difference exactly between labels with equal numeric sequences, such as 7
\* and 7.0.
C6_NumericWithinGroup ==
    pc = "ranked" =>
        /\ \A i, j \in 1..Len(sorted) :
               (i < j /\ HasMarkerOn[sorted[i]] = HasMarkerOn[sorted[j]]) =>
                   NumericOrderOn[sorted[i], sorted[j]] >= 0
        /\ Elements(versions) = {L_1_2, L_1_9, L_1_10} /\ Len(versions) = 3 =>
               sorted = <<L_1_10, L_1_9, L_1_2>>
        /\ \A a, b \in Elements(versions) :
               /\ TokensOn[a] = NumericSeqOn[a]
               /\ TokensEqualOn[a, b] <=> (NumericOrderOn[a, b] = 0)
               /\ (a = L_7 /\ b = L_7_0) => TokensEqualOn[a, b]

\* 1.2, 1.10, 1.9 were ranked 1.10, 1.9, 1.2.
C6_Witness ==
    /\ pc = "ranked"
    /\ versions = <<L_1_2, L_1_10, L_1_9>>
    /\ sorted = <<L_1_10, L_1_9, L_1_2>>

\* C7: the comparison is a total order on labels: it is antisymmetric and
\* transitive, only identical labels compare equal, and labels of the same
\* class with the same numeric sequence are ordered by the reverse of their
\* string comparison; so the output is an ordering of the input, in the
\* comparison's order, and the same one when the input is reordered
\* (duplicates included).
C7_TotalOrder ==
    pc = "ranked" =>
        /\ \A a, b \in Elements(versions) :
               /\ Sign(ComparatorOn[a, b]) = -Sign(ComparatorOn[b, a])
               /\ (ComparatorOn[a, b] = 0) <=> (a = b)
               /\ (HasMarkerOn[a] = HasMarkerOn[b] /\ NumericOrderOn[a, b] = 0) =>
                      Sign(ComparatorOn[a, b]) = Sign(LocaleOn[b, a])
        /\ \A a, b, c \in Elements(versions) :
               (ComparatorOn[a, b] <= 0 /\ ComparatorOn[b, c] <= 0)
                   => ComparatorOn[a, c] <= 0
        /\ sorted \in Arrangements(versions)
        /\ \A i, j \in 1..Len(sorted) :
               i < j => ComparatorOn[sorted[i], sorted[j]] <= 0
        /\ ArraySort(SwapFirstTwo(versions)) = sorted
        /\ ArraySort(RotateLeft(versions)) = sorted

\* A duplicated label and a label with the same numeric sequence: 7.0 was
\* put before both copies of 7.
C7_Witness ==
    /\ pc = "ranked"
    /\ versions = <<L_7, L_7_0, L_7>>
    /\ sorted = <<L_7_0, L_7, L_7>>

(***************************************************************************)
(* The listing calls of github.ts.  The upstream response is a set of      *)
(* directory entries; each call keeps the entries of one type, takes their *)
(* names and sorts them with Array.prototype.sort's default order, the     *)
(* order of the strings' UTF-16 code units.                                *)
(***************************************************************************)
CodeUnit(c) ==
    IF c = "-" THEN 45
    ELSE IF c = "." THEN 46
    ELSE IF IsDigit(c) THEN 48 + DigitValue(c)
    ELSE IF IsIn(UpperChars, c) THEN 64 + IndexIn(UpperChars, c)
    ELSE 96 + IndexIn(LowerChars, c)

CodeUnitCompare(a, b) ==
    WeightsCompare([k \in 1..Len(a) |-> CodeUnit(a[k])],
                   [k \in 1..Len(b) |-> CodeUnit(b[k])], 1)

RECURSIVE DefaultSort(_)
DefaultSort(S) ==
    IF S = {} THEN <<>>
    ELSE LET m == CHOOSE x \in S : \A y \in S : CodeUnitCompare(x, y) <= 0
         IN  <<m>> \o DefaultSort(S \ {m})

Dir(n) == [name |-> n, type |-> "dir"]
File(n) == [name |-> n, type |-> "file"]

\* items.filter(i => i.type === "dir").map(i => i.name).sort()
DirNames(items) == DefaultSort({i.name : i \in {j \in items : j.type = "dir"}})

\* i.name.toLowerCase().endsWith(".json")
EndsWithDotJson(n) ==
    LET w == [k \in 1..Len(n) |-> FoldCase(n[k])]
    IN  Len(w) >= Len(DotJson) /\ SubSeq(w, Len(w) - Len(DotJson) + 1, Len(w)) = DotJson

\* items.filter(i => i.type === "file" && ...endsWith(".json")).map(i => i.name).sort()
JsonNames(items) ==
    DefaultSort({i.name : i \in {j \in items : j.type = "file" /\ EndsWithDotJson(j.name)}})

\* What the upstream repository may hold.
ApiNames == {<<"a">>, <<"x">>}
RootItems == {Dir(n) : n \in ApiNames} \cup {File(<<"r", "e", "a", "d", "m", "e">>)}
ApiItems ==
    { Dir(<<"7", ".", "1">>),
      Dir(<<"7", ".", "2", "-", "p", "r", "e", "v", "i", "e", "w">>),
      File(<<"a", ".", "m", "d">>) }
VersionItems ==
    { File(<<"a">> \o DotJson), File(<<"a">> \o SDotJson),
      File(<<"a", ".", "m", "d">>) }

\* The spec files that may be in the cache when the command starts.
CachePath(a, v, f) == [api |-> a, version |-> v, file |-> f]
PreCached ==
    { CachePath(<<"a">>, Some(<<"7", ".", "1">>), Some(<<"a">> \o DotJson)),
      CachePath(<<"x">>, Some(<<"7", ".", "1">>), Some(<<"a">> \o DotJson)) }

(***************************************************************************)
(* generate-latest (index.ts).  The log records, in order: the start of    *)
(* each loop iteration ("attempt"), each upstream request and what it      *)
(* returned, each error thrown ("raise"), each line on standard error      *)
(* ("stderr") and standard output ("stdout"), and each side effect.        *)
(***************************************************************************)
Ev(a, e, k) == [api |-> a, ev |-> e, kind |-> k]

NoApi == <<>>

\* Mutant: the process ends with status 0.
dieExitsZero(pre, kind) ==
    /\ log' = log \o pre \o <<Ev(NoApi, "raise", kind), Ev(NoApi, "stderr", kind)>>
    /\ exitCode' = Some(0)
    /\ pc' = "died"

\* die(msg): console.error, process.exit(1)
die(pre, kind) ==
    /\ log' = log \o pre \o <<Ev(NoApi, "raise", kind), Ev(NoApi, "stderr", kind)>>
    /\ exitCode' = Some(1)
    /\ pc' = "died"

\* Mutant: the per-API handler ends the command.
CatchPerApiDies(pre, kind) ==
    /\ log' = log \o pre \o <<Ev(api, "raise", kind), Ev(api, "stderr", kind)>>
    /\ exitCode' = Some(1)
    /\ pc' = "died"

\* Mutant: the per-API handler prints nothing.
CatchPerApiSilent(pre, kind) ==
    /\ log' = log \o pre \o <<Ev(api, "raise", kind)>>
    /\ pc' = "forOf"
    /\ UNCHANGED exitCode

\* catch (e) { console.error(`Error en ${api}: ...`) } and on to the next api
CatchPerApi(pre, kind) ==
    /\ log' = log \o pre \o <<Ev(api, "raise", kind), Ev(api, "stderr", kind)>>
    /\ pc' = "forOf"
    /\ UNCHANGED exitCode

\* Mutant: the test of the versions' length is missing.
NoVersionsNever(v) == FALSE

\* !versions.length
NoVersions(v) == Len(v) = 0

\* Mutant: the flag is not consulted.
CacheHitIgnoresFlag(cachePath) == cachePath \in cacheFiles

\* opts.cache && fs.existsSync(cachePath)
CacheHit(cachePath) == optsCache /\ cachePath \in cacheFiles

\* spawnSync's r.status: 0, or not 0
ExitStatuses == {0, 1}

\* Mutant: the status of the generator is not examined.
GeneratorThrowsNever(status) == FALSE

\* if (r.status !== 0) throw new Error(`openapi-generator failed ...`)
GeneratorThrows(status) == status # 0

InitBulk ==
    /\ pc = "listApis"
    /\ optsCache \in BOOLEAN
    /\ cacheFiles \in SUBSET PreCached
    /\ apis = <<>>
    /\ idx = 0
    /\ exitCode = None
    /\ log = <<>>
    /\ api = NoApi
    /\ versions = <<>>
    /\ sorted = <<>>
    /\ latest = None
    /\ jsons = <<>>
    /\ picked = NoOutcome
    /\ fileOverride = None
    /\ NoScaffold

\* const apis = await listApis(opts.ref); a failure reaches the outer catch.
BulkListApis ==
    /\ pc = "listApis"
    /\ \/ /\ die(<<Ev(NoApi, "listApis", "failed")>>, "UpstreamRequestFailed")
          /\ UNCHANGED <<apis, idx>>
       \/ \E items \in SUBSET RootItems :
              /\ apis' = DirNames(items)
              /\ idx' = 0
              /\ log' = Append(log, Ev(NoApi, "listApis", "ok"))
              /\ pc' = "forOf"
              /\ UNCHANGED exitCode
    /\ UNCHANGED <<callVars, optsCache, cacheFiles>>
    /\ UNCHANGED scaffoldVars

\* for (const api of apis): the next api, or the end of the loop, "Finalizado."
\* and the end of the process.
BulkForOf ==
    /\ pc = "forOf"
    /\ IF idx < Len(apis)
       THEN /\ api' = apis[idx + 1]
            /\ idx' = idx + 1
            /\ log' = Append(log, Ev(apis[idx + 1], "attempt", ""))
            /\ pc' = "listVersions"
            /\ UNCHANGED exitCode
       ELSE /\ api' = NoApi
            /\ log' = Append(log, Ev(NoApi, "stdout", "Finalizado."))
            /\ exitCode' = Some(0)
            /\ pc' = "done"
            /\ UNCHANGED idx
    /\ versions' = <<>>
    /\ sorted' = <<>>
    /\ latest' = None
    /\ jsons' = <<>>
    /\ picked' = NoOutcome
    /\ UNCHANGED <<fileOverride, apis, optsCache, cacheFiles>>
    /\ UNCHANGED scaffoldVars

\* const versions = await listVersions(api, opts.ref);
\* if (!versions.length) continue;
BulkListVersions ==
    /\ pc = "listVersions"
    /\ \/ /\ CatchPerApi(<<Ev(api, "listVersions", "failed")>>, "UpstreamRequestFailed")
          /\ UNCHANGED versions
       \/ \E items \in SUBSET ApiItems :
              /\ versions' = DirNames(items)
              /\ log' = Append(log, Ev(api, "listVersions",
                                       IF versions' = <<>> THEN "empty" ELSE "some"))
              /\ pc' = IF NoVersions(versions') THEN "forOf" ELSE "latest"
              /\ UNCHANGED exitCode
    /\ UNCHANGED <<api, jsons, fileOverride, picked, sorted, latest>>
    /\ UNCHANGED <<apis, idx, optsCache, cacheFiles>>
    /\ UNCHANGED scaffoldVars

\* const latest = pickLatest(versions);
BulkPickLatest ==
    /\ pc = "latest"
    /\ sorted' = ArraySort(versions)
    /\ latest' = IF sorted' = <<>> THEN None ELSE Some(sorted'[1])
    /\ pc' = "listJsonFiles"
    /\ UNCHANGED <<api, jsons, fileOverride, picked, versions, bulkVars>>
    /\ UNCHANGED scaffoldVars

\* const { jsons } = await listJsonFiles(api, latest, opts.ref);
BulkListJsonFiles ==
    /\ pc = "listJsonFiles"
    /\ \/ /\ CatchPerApi(<<Ev(api, "listJsonFiles", "failed")>>, "UpstreamRequestFailed")
          /\ UNCHANGED jsons
       \/ \E items \in SUBSET VersionItems :
              /\ jsons' = JsonNames(items)
              /\ log' = Append(log, Ev(api, "listJsonFiles", "ok"))
              /\ pc' = "chosen"
              /\ UNCHANGED exitCode
    /\ UNCHANGED <<api, fileOverride, picked, versions, sorted, latest>>
    /\ UNCHANGED <<apis, idx, optsCache, cacheFiles>>
    /\ UNCHANGED scaffoldVars

\* try { chosen = pickSpecFile(api, jsons); } catch { continue; }
BulkPickSpecFile ==
    /\ pc = "chosen"
    /\ picked' = pickSpecFile(api, jsons, None)
    /\ IF picked'.kind = "ok"
       THEN /\ pc' = "spec"
            /\ UNCHANGED log
       ELSE /\ pc' = "forOf"
            /\ log' = Append(log, Ev(api, "raise", picked'.kind))
    /\ UNCHANGED <<api, jsons, fileOverride, versions, sorted, latest>>
    /\ UNCHANGED <<apis, idx, optsCache, cacheFiles, exitCode>>
    /\ UNCHANGED scaffoldVars

\* if (opts.cache && fs.existsSync(cachePath)) specPath = cachePath;
\* else { ensureDir(...); await downloadSpecTo(url, cachePath); }
BulkSpecFile ==
    /\ pc = "spec"
    /\ LET cachePath == CachePath(api, latest, picked.value)
       IN  IF CacheHit(cachePath)
           THEN /\ log' = Append(log, Ev(api, "cacheHit", ""))
                /\ pc' = "generate"
                /\ UNCHANGED <<cacheFiles, exitCode>>
           ELSE \/ /\ CatchPerApi(<<>>, "FileSystemError")
                   /\ UNCHANGED cacheFiles
                \/ /\ CatchPerApi(<<Ev(api, "download", "failed")>>,
                                  "UpstreamRequestFailed")
                   /\ UNCHANGED cacheFiles
                \/ /\ CatchPerApi(<<Ev(api, "download", "ok")>>, "FileSystemError")
                   /\ UNCHANGED cacheFiles
                \/ /\ log' = log \o <<Ev(api, "download", "ok"), Ev(api, "cacheWrite", "")>>
                   /\ cacheFiles' = cacheFiles \cup {cachePath}
                   /\ pc' = "generate"
                   /\ UNCHANGED exitCode
    /\ UNCHANGED <<callVars, apis, idx, optsCache>>
    /\ UNCHANGED scaffoldVars

\* tmpDir, ensureDir(genOut), runOpenApiGenerate: spawnSync, and a throw when
\* the status is not 0.
BulkGenerate ==
    /\ pc = "generate"
    /\ \/ CatchPerApi(<<>>, "FileSystemError")
       \/ \E status \in ExitStatuses :
              IF GeneratorThrows(status)
              THEN CatchPerApi(<<Ev(api, "generate", "nonzero")>>, "GeneratorFailed")
              ELSE /\ log' = Append(log, Ev(api, "generate",
                                           IF status = 0 THEN "zero" ELSE "nonzero"))
                   /\ pc' = "copy"
                   /\ UNCHANGED exitCode
    /\ UNCHANGED <<callVars, apis, idx, optsCache, cacheFiles>>
    /\ UNCHANGED scaffoldVars

\* ensureDir(resolvedOut); if (fs.existsSync(finalDir)) fs.rmSync(finalDir);
\* fs.mkdirSync(finalDir); fs.cpSync(genOut, finalDir)
BulkCopy ==
    /\ pc = "copy"
    /\ \E existed \in BOOLEAN :
           LET removed == IF existed THEN <<Ev(api, "rmSync", "")>> ELSE <<>>
           IN  \/ CatchPerApi(removed, "FileSystemError")
               \/ /\ log' = log \o removed \o <<Ev(api, "cpSync", "")>>
                  /\ pc' = "scaffold"
                  /\ UNCHANGED exitCode
    /\ UNCHANGED <<callVars, apis, idx, optsCache, cacheFiles>>
    /\ UNCHANGED scaffoldVars

\* scaffoldPackage(...); console.log(`${api}@${latest} -> ${finalDir}`)
BulkScaffold ==
    /\ pc = "scaffold"
    /\ \/ CatchPerApi(<<>>, "FileSystemError")
       \/ /\ log' = log \o <<Ev(api, "scaffold", ""), Ev(api, "stdout", "")>>
          /\ pc' = "forOf"
          /\ UNCHANGED exitCode
    /\ UNCHANGED <<callVars, apis, idx, optsCache, cacheFiles>>
    /\ UNCHANGED scaffoldVars

NextBulk ==
    \/ BulkListApis
    \/ BulkForOf
    \/ BulkListVersions
    \/ BulkPickLatest
    \/ BulkListJsonFiles
    \/ BulkPickSpecFile
    \/ BulkSpecFile
    \/ BulkGenerate
    \/ BulkCopy
    \/ BulkScaffold

SpecBulk == InitBulk /\ [][NextBulk]_vars

\* The command runs on one thread and every call it awaits returns: a step
\* that can be taken is taken.
FairBulk == SpecBulk /\ WF_vars(NextBulk)

(***************************************************************************)
(* The single-target commands list, resolve and generate.  Each action     *)
(* body is one try block whose catch calls die.  opts.api is in api (the   *)
(* empty string when the option is absent), opts.apiVersion in latest and  *)
(* opts.file in fileOverride; the log starts with the command that runs.   *)
(***************************************************************************)
ApiVersions ==
    { <<"7", ".", "1">>,
      <<"7", ".", "2", "-", "p", "r", "e", "v", "i", "e", "w">> }

FileOptions == {None, Some(<<>>), Some(<<"a">> \o DotJson), Some(<<"b">> \o DotJson)}

\* n lines on standard output
Lines(a, n) == [k \in 1..n |-> Ev(a, "stdout", "")]

InitList ==
    /\ pc = "list"
    /\ api \in {NoApi} \cup ApiNames
    /\ latest = None
    /\ fileOverride = None
    /\ optsCache = TRUE
    /\ cacheFiles = {}
    /\ log = <<Ev(api, "command", "list")>>

InitResolve ==
    /\ pc = "resolve"
    /\ api \in ApiNames
    /\ latest \in {Some(v) : v \in ApiVersions}
    /\ fileOverride \in FileOptions
    /\ optsCache = TRUE
    /\ cacheFiles = {}
    /\ log = <<Ev(api, "command", "resolve")>>

InitGenerate ==
    /\ pc = "generate:listJsonFiles"
    /\ api \in ApiNames
    /\ latest \in {Some(v) : v \in ApiVersions}
    /\ fileOverride \in FileOptions
    /\ optsCache \in BOOLEAN
    /\ cacheFiles \in SUBSET PreCached
    /\ log = <<Ev(api, "command", "generate")>>

InitSingle ==
    /\ InitList \/ InitResolve \/ InitGenerate
    /\ apis = <<>>
    /\ idx = 0
    /\ exitCode = None
    /\ versions = <<>>
    /\ sorted = <<>>
    /\ jsons = <<>>
    /\ picked = NoOutcome
    /\ NoScaffold

\* The action's body returns: the process ends with status 0.
Returns(printed) ==
    /\ log' = log \o printed
    /\ exitCode' = Some(0)
    /\ pc' = "done"

\* list: without --api the API names, else the versions of the API.
ListCommand ==
    /\ pc = "list"
    /\ IF ~Truthy(Some(api))
       THEN /\ \/ /\ die(<<Ev(NoApi, "listApis", "failed")>>, "UpstreamRequestFailed")
                  /\ UNCHANGED apis
               \/ \E items \in SUBSET RootItems :
                      /\ apis' = DirNames(items)
                      /\ Returns(<<Ev(NoApi, "listApis", "ok")>>
                                     \o Lines(NoApi, Len(apis')))
            /\ UNCHANGED versions
       ELSE /\ \/ /\ die(<<Ev(api, "listVersions", "failed")>>, "UpstreamRequestFailed")
                  /\ UNCHANGED versions
               \/ \E items \in SUBSET ApiItems :
                      /\ versions' = DirNames(items)
                      /\ Returns(<<Ev(api, "listVersions",
                                      IF versions' = <<>> THEN "empty" ELSE "some")>>
                                     \o Lines(api, Len(versions')))
            /\ UNCHANGED apis
    /\ UNCHANGED <<api, jsons, fileOverride, picked, sorted, latest>>
    /\ UNCHANGED <<idx, optsCache, cacheFiles>>
    /\ UNCHANGED scaffoldVars

\* const { jsons } = await listJsonFiles(opts.api, opts.apiVersion, opts.ref);
ListJsonFilesOrDie(next) ==
    /\ \/ /\ die(<<Ev(api, "listJsonFiles", "failed")>>, "UpstreamRequestFailed")
          /\ UNCHANGED jsons
       \/ \E items \in SUBSET VersionItems :
              /\ jsons' = JsonNames(items)
              /\ log' = Append(log, Ev(api, "listJsonFiles", "ok"))
              /\ pc' = next
              /\ UNCHANGED exitCode
    /\ UNCHANGED <<api, fileOverride, picked, versions, sorted, latest>>
    /\ UNCHANGED <<apis, idx, optsCache, cacheFiles>>
    /\ UNCHANGED scaffoldVars

ResolveListJsonFiles ==
    /\ pc = "resolve"
    /\ ListJsonFilesOrDie("resolve:pickSpecFile")

\* const chosen = pickSpecFile(opts.api, jsons, opts.file); the url and the
\* two lines printed.
ResolvePickSpecFile ==
    /\ pc = "resolve:pickSpecFile"
    /\ picked' = pickSpecFile(api, jsons, fileOverride)
    /\ IF picked'.kind = "ok"
       THEN Returns(Lines(api, 2))
       ELSE die(<<>>, picked'.kind)
    /\ UNCHANGED <<api, jsons, fileOverride, versions, sorted, latest>>
    /\ UNCHANGED <<apis, idx, optsCache, cacheFiles>>
    /\ UNCHANGED scaffoldVars

GenerateListJsonFiles ==
    /\ pc = "generate:listJsonFiles"
    /\ ListJsonFilesOrDie("generate:pickSpecFile")

\* const chosen = pickSpecFile(opts.api, jsons, opts.file);
GeneratePickSpecFile ==
    /\ pc = "generate:pickSpecFile"
    /\ picked' = pickSpecFile(api, jsons, fileOverride)
    /\ IF picked'.kind = "ok"
       THEN /\ pc' = "generate:spec"
            /\ UNCHANGED <<log, exitCode>>
       ELSE die(<<>>, picked'.kind)
    /\ UNCHANGED <<api, jsons, fileOverride, versions, sorted, latest>>
    /\ UNCHANGED <<apis, idx, optsCache, cacheFiles>>
    /\ UNCHANGED scaffoldVars

\* if (opts.cache && fs.existsSync(cachePath)) { "Cache hit"; }
\* else { "Descargando"; ensureDir(...); await downloadSpecTo(url, cachePath); }
GenerateSpecFile ==
    /\ pc = "generate:spec"
    /\ LET cachePath == CachePath(api, latest, picked.value)
       IN  IF CacheHit(cachePath)
           THEN /\ log' = log \o <<Ev(api, "cacheHit", ""), Ev(api, "stdout", "")>>
                /\ pc' = "generate:generate"
                /\ UNCHANGED <<cacheFiles, exitCode>>
           ELSE \/ /\ die(<<Ev(api, "stdout", "")>>, "FileSystemError")
                   /\ UNCHANGED cacheFiles
                \/ /\ die(<<Ev(api, "stdout", ""), Ev(api, "download", "failed")>>,
                          "UpstreamRequestFailed")
                   /\ UNCHANGED cacheFiles
                \/ /\ die(<<Ev(api, "stdout", ""), Ev(api, "download", "ok")>>,
                          "FileSystemError")
                   /\ UNCHANGED cacheFiles
                \/ /\ log' = log \o <<Ev(api, "stdout", ""), Ev(api, "download", "ok"),
                                      Ev(api, "cacheWrite", "")>>
                   /\ cacheFiles' = cacheFiles \cup {cachePath}
                   /\ pc' = "generate:generate"
                   /\ UNCHANGED exitCode
    /\ UNCHANGED <<callVars, apis, idx, optsCache>>
    /\ UNCHANGED scaffoldVars

\* tmpDir, ensureDir(genOut), "Generando SDK", runOpenApiGenerate
GenerateRun ==
    /\ pc = "generate:generate"
    /\ \/ die(<<>>, "FileSystemError")
       \/ \E status \in ExitStatuses :
              IF GeneratorThrows(status)
              THEN die(<<Ev(api, "stdout", ""), Ev(api, "generate", "nonzero")>>,
                       "GeneratorFailed")
              ELSE /\ log' = log \o <<Ev(api, "stdout", ""),
                                      Ev(api, "generate",
                                         IF status = 0 THEN "zero" ELSE "nonzero")>>
                   /\ pc' = "generate:copy"
                   /\ UNCHANGED exitCode
    /\ UNCHANGED <<callVars, apis, idx, optsCache, cacheFiles>>
    /\ UNCHANGED scaffoldVars

\* ensureDir(resolvedOut); if (fs.existsSync(finalDir)) fs.rmSync(finalDir);
\* fs.mkdirSync(finalDir); fs.cpSync(genOut, finalDir)
GenerateCopy ==
    /\ pc = "generate:copy"
    /\ \E existed \in BOOLEAN :
           LET removed == IF existed THEN <<Ev(api, "rmSync", "")>> ELSE <<>>
           IN  \/ die(removed, "FileSystemError")
               \/ /\ log' = log \o removed \o <<Ev(api, "cpSync", "")>>
                  /\ pc' = "generate:scaffold"
                  /\ UNCHANGED exitCode
    /\ UNCHANGED <<callVars, apis, idx, optsCache, cacheFiles>>
    /\ UNCHANGED scaffoldVars

\* scaffoldPackage(...) and the three lines printed at the end
GenerateScaffold ==
    /\ pc = "generate:scaffold"
    /\ \/ die(<<>>, "FileSystemError")
       \/ Returns(<<Ev(api, "scaffold", "")>> \o Lines(api, 3))
    /\ UNCHANGED <<callVars, apis, idx, optsCache, cacheFiles>>
    /\ UNCHANGED scaffoldVars

NextSingle ==
    \/ ListCommand
    \/ ResolveListJsonFiles
    \/ ResolvePickSpecFile
    \/ GenerateListJsonFiles
    \/ GeneratePickSpecFile
    \/ GenerateSpecFile
    \/ GenerateRun
    \/ GenerateCopy
    \/ GenerateScaffold

SpecSingle == InitSingle /\ [][NextSingle]_vars

\* The commands that fetch a spec document and run the generator.
InitCli == InitSingle \/ InitBulk
NextCli == NextSingle \/ NextBulk
SpecCli == InitCli /\ [][NextCli]_vars

(***************************************************************************)
(* scaffoldPackage.  A path is the sequence of its segments below          *)
(* packageDir; the directory is the set of the paths that exist in it.     *)
(* A line of index.ts is a comment or an export with its module specifier. *)
(* generate and generate-latest follow that the scaffold is written, not   *)
(* what it holds: the content is followed here, for any directory.         *)
(***************************************************************************)
ApisIndexTs == <<"apis", "index.ts">>
ModelsIndexTs == <<"models", "index.ts">>
ConfigurationTs == <<"configuration.ts">>
RuntimeTs == <<"runtime.ts">>
SrcIndexTs == <<"src", "index.ts">>
SrcApis == <<"src", "apis">>
SrcModels == <<"src", "models">>

\* path.join(packageDir, "src", ...)
UnderSrc(p) == <<"src">> \o p

\* What the generator's output may hold, of the paths scaffoldPackage tests.
GeneratedPaths ==
    { ApisIndexTs, ModelsIndexTs, ConfigurationTs, RuntimeTs,
      UnderSrc(ApisIndexTs), UnderSrc(ModelsIndexTs), UnderSrc(ConfigurationTs),
      UnderSrc(RuntimeTs), SrcIndexTs, SrcApis, SrcModels, <<"index.ts">> }

\* A file exists only in a directory that exists.
IsDirectoryTree(d) ==
    /\ UnderSrc(ApisIndexTs) \in d => SrcApis \in d
    /\ UnderSrc(ModelsIndexTs) \in d => SrcModels \in d

\* fs.existsSync(p), false when it throws
fileExists(d, p) == p \in d

hasApisIndex(d) == fileExists(d, ApisIndexTs) \/ fileExists(d, UnderSrc(ApisIndexTs))
hasModelsIndex(d) == fileExists(d, ModelsIndexTs) \/ fileExists(d, UnderSrc(ModelsIndexTs))
hasConfiguration(d) ==
    fileExists(d, ConfigurationTs) \/ fileExists(d, UnderSrc(ConfigurationTs))

\* Mutant: only the root of the package is searched.
hasRuntimeAtRootOnly(d) == fileExists(d, RuntimeTs)

hasRuntime(d) == fileExists(d, RuntimeTs) \/ fileExists(d, UnderSrc(RuntimeTs))

usesSrcLayout(d) ==
    fileExists(d, SrcIndexTs) \/ fileExists(d, SrcApis) \/ fileExists(d, SrcModels)

\* (p) => (usesSrcLayout ? `./src/${p}` : `./${p}`)
entryFrom(d, p) == IF usesSrcLayout(d) THEN <<".", "src">> \o p ELSE <<".">> \o p

CommentLine(text) == [kind |-> "comment", from |-> <<text>>]
ExportLine(specifier) == [kind |-> "export", from |-> specifier]

fallbackSrcIndex(d) == fileExists(d, SrcIndexTs)

\* exportsLines, as index.ts receives it
exportsLines(d) ==
    LET header == << CommentLine("Auto-generated entrypoint."),
                     CommentLine("Do not edit manually.") >>
        known ==
            header
                \o (IF hasApisIndex(d)
                    THEN <<ExportLine(entryFrom(d, <<"apis", "index.js">>))>> ELSE <<>>)
                \o (IF hasModelsIndex(d)
                    THEN <<ExportLine(entryFrom(d, <<"models", "index.js">>))>> ELSE <<>>)
                \o (IF hasConfiguration(d)
                    THEN <<ExportLine(entryFrom(d, <<"configuration.js">>))>> ELSE <<>>)
                \o (IF hasRuntime(d)
                    THEN <<ExportLine(entryFrom(d, <<"runtime.js">>))>> ELSE <<>>)
        withFallback ==
            IF Len(known) <= 2 /\ fallbackSrcIndex(d)
            THEN Append(known, ExportLine(<<".", "src", "index.js">>))
            ELSE known
    IN  IF Len(withFallback) <= 2
        THEN Append(withFallback,
                    [kind |-> "comment",
                     from |-> << "No known entrypoints were detected.",
                                 IF usesSrcLayout(d) THEN "./src" ELSE "./" >>])
        ELSE withFallback

\* The files scaffoldPackage writes.
ScaffoldFiles == {<<"package.json">>, <<"tsconfig.json">>, <<"README.md">>, <<"index.ts">>}

InitScaffold ==
    /\ pc = "scaffoldPackage"
    /\ packageDir \in {d \in SUBSET GeneratedPaths : IsDirectoryTree(d)}
    /\ indexTs = <<>>
    /\ api = NoApi
    /\ jsons = <<>>
    /\ fileOverride = None
    /\ picked = NoOutcome
    /\ versions = <<>>
    /\ sorted = <<>>
    /\ latest = None
    /\ NoCommand

ScaffoldPackage ==
    /\ pc = "scaffoldPackage"
    /\ indexTs' = exportsLines(packageDir)
    /\ packageDir' = packageDir \cup ScaffoldFiles
    /\ pc' = "scaffolded"
    /\ UNCHANGED <<callVars, bulkVars>>

NextScaffold == ScaffoldPackage

SpecScaffold == InitScaffold /\ [][NextScaffold]_vars

(***************************************************************************)
(* The whole model.                                                        *)
(***************************************************************************)
Init == InitPick \/ InitRank \/ InitBulk \/ InitSingle \/ InitScaffold
Next == NextPick \/ NextRank \/ NextBulk \/ NextSingle \/ NextScaffold
Spec == Init /\ [][Next]_vars

(***************************************************************************)
(* Claims about generate-latest.                                           *)
(***************************************************************************)
\* The positions of the log that belong to api a.
EventsOf(a) == {n \in 1..Len(log) : log[n].api = a}

\* The position of a in the listing apis (0 for none).
PositionOf(a) ==
    IF \E k \in 1..Len(apis) : apis[k] = a
    THEN CHOOSE k \in 1..Len(apis) : apis[k] = a
    ELSE 0

\* The apis whose loop iteration has started, in the order of starting.
RECURSIVE AttemptsIn(_)
AttemptsIn(l) ==
    IF l = <<>> THEN <<>>
    ELSE IF l[Len(l)].ev = "attempt"
         THEN Append(AttemptsIn(SubSeq(l, 1, Len(l) - 1)), l[Len(l)].api)
    ELSE AttemptsIn(SubSeq(l, 1, Len(l) - 1))

A_ == <<"a">>
X_ == <<"x">>

\* C8: the ranker has no failure modes: whatever the labels (labels without
\* digits included) its sorted list is an ordering of the input and the
\* latest label is the head of that list, and the empty input gives the
\* empty list; in generate-latest an api whose version list is empty is
\* skipped: after the empty listing nothing more happens for it, no error, no
\* line on standard error, no request, no generator run.
C8_NoFailureModes ==
    /\ pc = "ranked" =>
           /\ sorted \in Arrangements(versions)
           /\ versions # <<>> => latest = Some(sorted[1])
           /\ versions = <<>> => (sorted = <<>> /\ latest = None)
    /\ \A n \in 1..Len(log) :
           (log[1].ev # "command" /\ log[n].ev = "listVersions"
                /\ log[n].kind = "empty") =>
               {log[m] : m \in EventsOf(log[n].api)} =
                   {Ev(log[n].api, "attempt", ""), log[n]}

\* The first api had no versions and was skipped; the command went on to the
\* second api, generated it and ended.
C8_Witness ==
    /\ pc = "done"
    /\ apis = <<A_, X_>>
    /\ \E n \in 1..Len(log) : log[n] = Ev(A_, "listVersions", "empty")
    /\ \E n \in 1..Len(log) : log[n] = Ev(X_, "generate", "zero")
    /\ \E n \in 1..Len(log) : log[n] = Ev(X_, "stdout", "")

\* What holds in every state of generate-latest once listApis has returned.
C9_LoopInvariant ==
    (pc \notin {"listApis", "died"}) =>
        \* the iterations started so far are those of the first idx apis, in
        \* listing order, each once
        /\ AttemptsIn(log) = SubSeq(apis, 1, idx)
        \* one api at a time: nothing is logged for an api after a later api
        \* has started
        /\ \A m, n \in 1..Len(log) :
               (m < n /\ log[m].api # NoApi /\ log[n].api # NoApi) =>
                   PositionOf(log[m].api) <= PositionOf(log[n].api)
        \* a failure does not stop the loop: after an error the command is at
        \* the head of the loop, neither ended nor exited
        /\ (log # <<>> /\ log[Len(log)].ev \in {"raise", "stderr"}) => pc = "forOf"
        /\ exitCode \in {None, Some(0)}
        /\ exitCode = Some(0) <=> pc = "done"
        /\ pc = "done" => AttemptsIn(log) = apis

\* C9: generate-latest, once listApis has returned: the apis are processed
\* one at a time in listing order, a failure at any step for one api never
\* stops the loop, every listed api is attempted exactly once, and the
\* command eventually ends with exit status 0 whatever failed.
C9_BulkCompletes ==
    /\ []C9_LoopInvariant
    /\ (pc = "forOf") ~> (pc = "done" /\ exitCode = Some(0) /\ AttemptsIn(log) = apis)

\* Two apis were listed, the generator failed for the first, the second was
\* generated, and the command ended with status 0.
C9_Witness ==
    /\ pc = "done"
    /\ exitCode = Some(0)
    /\ apis = <<A_, X_>>
    /\ \E n \in 1..Len(log) : log[n] = Ev(A_, "stderr", "GeneratorFailed")
    /\ \E n \in 1..Len(log) : log[n] = Ev(X_, "stdout", "")

SelectorFailures == {"NotFound", "AmbiguousSelection"}

Raised(l) == {n \in 1..Len(l) : l[n].ev = "raise"}
FailedSteps(l) == {n \in 1..Len(l) : l[n].kind \in {"failed", "nonzero"}}
Ended == pc \in {"done", "died"}

\* C11: in list, resolve and generate an error of any step is the last thing
\* the command does but for its message on standard error, the process ends
\* with status 1 and no step follows it; a run with no failing step ends with
\* status 0, and the process has a status only once it has ended.
C11_ErrorEndsCommand ==
    /\ \A n \in FailedSteps(log) : n < Len(log) /\ log[n + 1].ev = "raise"
    /\ \A n \in Raised(log) :
           /\ n + 1 = Len(log)
           /\ log[n + 1].ev = "stderr" /\ log[n + 1].kind = log[n].kind
           /\ pc = "died"
    /\ (picked.kind \notin {"ok", "none"}) => pc = "died"
    /\ (pc = "died") => (Raised(log) # {} /\ exitCode = Some(1))
    /\ (pc = "done") => (Raised(log) = {} /\ FailedSteps(log) = {}
                            /\ exitCode = Some(0))
    /\ (exitCode # None) <=> Ended

\* generate ended by the generator's status, after the spec file was fetched
C11_Witness ==
    /\ pc = "died"
    /\ log[1].kind = "generate"
    /\ exitCode = Some(1)
    /\ \E n \in 1..Len(log) : log[n].ev = "generate" /\ log[n].kind = "nonzero"
    /\ \E n \in 1..Len(log) : log[n].ev = "cacheWrite"

(***************************************************************************)
(* The cache of spec documents in generate and generate-latest.            *)
(***************************************************************************)
SpecFileSteps == {"spec", "generate:spec"}
GeneratorSteps == {"generate", "generate:generate"}

\* The path keyed by ref, api, version and the chosen file name (one ref).
KeyedPath == [api |-> api, version |-> latest, file |-> picked.value]

\* What the step being taken appends to the log.
Added == SubSeq(log', Len(log) + 1, Len(log'))
Adds(e, k) == \E n \in 1..Len(Added) : Added[n].ev = e /\ Added[n].kind = k
Fetches == \E n \in 1..Len(Added) : Added[n].ev = "download"
FileSystemFails == Adds("raise", "FileSystemError")

\* C12 as stated: the generator reads the file at the keyed path, and every
\* successful fetch is followed by the store of the document at that path.
C12_EveryFetchStored ==
    /\ (pc \in GeneratorSteps) => (KeyedPath \in cacheFiles)
    /\ \A n \in 1..Len(log) :
           (log[n].ev = "download" /\ log[n].kind = "ok")
               => /\ n < Len(log)
                  /\ log[n + 1].ev = "cacheWrite" /\ log[n + 1].api = log[n].api

C12_SpecFileStep ==
    LET present == optsCache /\ KeyedPath \in cacheFiles
    IN  IF pc \in SpecFileSteps
        THEN /\ present => /\ ~Fetches
                           /\ Adds("cacheHit", "")
                           /\ cacheFiles' = cacheFiles
                           /\ pc' \in GeneratorSteps
             /\ ~present => /\ Fetches \/ FileSystemFails
                            /\ ~Adds("cacheHit", "")
             /\ Adds("download", "ok")
                    => \/ /\ Adds("cacheWrite", "")
                          /\ KeyedPath \in cacheFiles'
                          /\ pc' \in GeneratorSteps
                       \/ FileSystemFails
             /\ Adds("cacheWrite", "") => Adds("download", "ok")
             /\ cacheFiles \subseteq cacheFiles'
             /\ cacheFiles' \subseteq cacheFiles \cup {KeyedPath}
        ELSE /\ ~Fetches
             /\ cacheFiles' = cacheFiles

\* C12, amended: with caching enabled and the file present at the keyed path
\* no fetch is issued and the generator reads the cached file; otherwise the
\* document is fetched, unless a file-system call fails first; after a
\* successful fetch the document is stored at the keyed path, unless the write
\* fails, and then the generator does not run; no other step fetches or
\* changes the cache, and the generator only runs with the file present.
C12_FetchIffMiss ==
    /\ []((pc \in GeneratorSteps) => (KeyedPath \in cacheFiles))
    /\ [][C12_SpecFileStep]_vars

\* generate-latest with caching enabled: one API's document was in the cache,
\* the other's was fetched and stored
C12_Witness ==
    /\ optsCache
    /\ \E n \in 1..Len(log) : log[n] = Ev(A_, "cacheHit", "")
    /\ \E n \in 1..Len(log) : log[n] = Ev(X_, "download", "ok")
    /\ \E n \in 1..Len(log) : log[n] = Ev(X_, "cacheWrite", "")
    /\ CachePath(X_, Some(<<"7", ".", "1">>), Some(<<"a">> \o DotJson)) \in cacheFiles

(***************************************************************************)
(* The entry file scaffoldPackage writes.                                  *)
(***************************************************************************)
\* The four known submodules: the source file and the module name of each.
KnownSubmodules ==
    { [ts |-> <<"apis", "index.ts">>, js |-> <<"apis", "index.js">>],
      [ts |-> <<"models", "index.ts">>, js |-> <<"models", "index.js">>],
      [ts |-> <<"configuration.ts">>, js |-> <<"configuration.js">>],
      [ts |-> <<"runtime.ts">>, js |-> <<"runtime.js">>] }

\* A submodule is present at the root, under src/, or both.
AtRoot(m) == m.ts \in packageDir
InSrc(m) == (<<"src">> \o m.ts) \in packageDir
Present(m) == AtRoot(m) \/ InSrc(m)

ExportsIn(l) == {n \in 1..Len(l) : l[n].kind = "export"}
ReExportsOf(m, l) ==
    {n \in ExportsIn(l) : l[n].from \in {<<".">> \o m.js, <<".", "src">> \o m.js}}
SubmoduleReExports(l) == UNION {ReExportsOf(m, l) : m \in KnownSubmodules}
FallbackReExports(l) == {n \in ExportsIn(l) : l[n].from = <<".", "src", "index.js">>}
NoEntrypointComments(l) ==
    {n \in 1..Len(l) : l[n].kind = "comment"
                           /\ l[n].from[1] = "No known entrypoints were detected."}
Card(S) == Cardinality(S)

\* C13: index.ts has one re-export for each known submodule that is present
\* and none for an absent one; with none present it re-exports src/index.ts
\* alone when that file exists, and else holds only the comment that no
\* entrypoint was detected; neither the fallback nor that comment appears
\* next to a submodule's re-export, and no other export is written.
C13_EntryFile ==
    (pc = "scaffolded") =>
        /\ \A m \in KnownSubmodules :
               Card(ReExportsOf(m, indexTs)) = IF Present(m) THEN 1 ELSE 0
        /\ ExportsIn(indexTs) = SubmoduleReExports(indexTs) \cup FallbackReExports(indexTs)
        /\ IF \E m \in KnownSubmodules : Present(m)
           THEN /\ FallbackReExports(indexTs) = {}
                /\ NoEntrypointComments(indexTs) = {}
           ELSE IF <<"src", "index.ts">> \in packageDir
                THEN /\ Card(ExportsIn(indexTs)) = 1
                     /\ Card(FallbackReExports(indexTs)) = 1
                     /\ NoEntrypointComments(indexTs) = {}
                ELSE /\ ExportsIn(indexTs) = {}
                     /\ Card(NoEntrypointComments(indexTs)) = 1
                     /\ NoEntrypointComments(indexTs) = {Len(indexTs)}

\* two submodules under src/ only, two absent, next to a generic src/index.ts
C13_Witness ==
    /\ pc = "scaffolded"
    /\ <<"src", "index.ts">> \in packageDir
    /\ {m \in KnownSubmodules : Present(m)}
           = {m \in KnownSubmodules : m.ts \in {<<"apis", "index.ts">>, <<"runtime.ts">>}}
    /\ \A m \in KnownSubmodules : ~AtRoot(m)
    /\ Card(ExportsIn(indexTs)) = 2

\* The source file a module specifier of index.ts stands for: "./x/y.js" is
\* the file x/y.ts of the package directory.
TsName(n) ==
    CASE n = "index.js" -> "index.ts"
      [] n = "configuration.js" -> "configuration.ts"
      [] n = "runtime.js" -> "runtime.ts"
      [] OTHER -> n
SourceOf(specifier) ==
    LET rel == Tail(specifier)
    IN  SubSeq(rel, 1, Len(rel) - 1) \o <<TsName(rel[Len(rel)])>>

\* C16: whatever files the package directory holds, every re-export written
\* to index.ts names a module whose source file exists in the directory.
C16_ReExportsExist ==
    (pc = "scaffolded") =>
        \A n \in ExportsIn(indexTs) : SourceOf(indexTs[n].from) \in packageDir

(***************************************************************************)
(* The generator's exit status in generate and generate-latest.            *)
(***************************************************************************)
GeneratorRuns(l, a) == {n \in 1..Len(l) : l[n].ev = "generate" /\ l[n].api = a}
NonzeroExits(l) == {n \in 1..Len(l) : l[n].ev = "generate" /\ l[n].kind = "nonzero"}
LaterSteps == {"generate", "rmSync", "cpSync", "scaffold", "stdout", "download",
               "cacheHit", "cacheWrite"}

\* C14: the generator runs at most once for a unit of work, and a status
\* other than 0 ends the unit: the error is raised at once, and nothing is
\* removed, copied, scaffolded or printed as done for that unit afterwards;
\* in generate the process ends there.
C14_GeneratorFailureEndsUnit ==
    /\ \A a \in ApiNames : Cardinality(GeneratorRuns(log, a)) <= 1
    /\ \A n \in NonzeroExits(log) :
           /\ n + 2 <= Len(log)
           /\ log[n + 1].ev = "raise" /\ log[n + 1].kind = "GeneratorFailed"
           /\ log[n + 2].ev = "stderr"
           /\ \A k \in (n + 1)..Len(log) :
                  log[k].api = log[n].api => log[k].ev \notin LaterSteps
           /\ (log[1].ev = "command") => (n + 2 = Len(log) /\ pc = "died")
    /\ \A n \in 1..Len(log) :
           log[n].ev \in {"rmSync", "cpSync", "scaffold"}
               => \E k \in 1..(n - 1) : log[k] = Ev(log[n].api, "generate", "zero")

\* generate-latest: the generator failed for one API, and the next API's
\* package replaced an existing directory and was scaffolded
C14_Witness ==
    /\ \E n \in 1..Len(log) : log[n] = Ev(A_, "generate", "nonzero")
    /\ \E n \in 1..Len(log) : log[n] = Ev(X_, "rmSync", "")
    /\ \E n \in 1..Len(log) : log[n] = Ev(X_, "scaffold", "")
    /\ pc = "done"

====
